---------------------------- MODULE Spec2Model ----------------------------
(***************************************************************************)
(* The wallet ledger of go-digital-wallet: WalletUsecaseImpl (CreateWallet, *)
(* Withdraw, Deposit, GetTransactionHistory) over WalletRepositoryImpl      *)
(* (PostgreSQL through gorm) and the redis history cache.                   *)
(*                                                                         *)
(* Every worker is one goroutine serving one call.  A call advances one     *)
(* store or cache operation at a time; the local computation that follows   *)
(* an operation (a comparison, building the response, the deferred          *)
(* tx.Rollback() of a failed call) belongs to the step of that operation.   *)
(*                                                                         *)
(* Money: the usecase computes in float64, the store keeps DECIMAL(15,2).   *)
(* An amount is counted here in ticks, CentTicks ticks to the cent, so that *)
(* a request may carry a fraction of a cent (the request validation only    *)
(* asks for amount > 0) and writing a value to a DECIMAL(15,2) column       *)
(* rounds it to whole cents, half away from zero.                           *)
(***************************************************************************)
EXTENDS Integers, Sequences, FiniteSets, TLC

\* ------------------------------------------------------------- bounds
\* ticks per cent: the resolution of the amounts a request may carry
CentTicks == 2
\* the largest amount of a request, in ticks
MaxAmount == 2
\* committed mutations explored per wallet
MaxRows == 2
\* the largest limit, the largest offset and the most rows of a wallet that
\* PageSpec explores
MaxLimit == 2
MaxOffset == 3
MaxTotal == 3

Workers == {"w1", "w2"}
Users == {"u1", "u2"}
\* the users whose calls Spec explores
Accounts == {"u1"}
NoWorker == "nobody"
NoUser == "nouser"

\* request amounts: negative, zero, and every positive amount up to MaxAmount
Amounts == -1 .. MaxAmount
\* (limit, offset) pairs of the history requests explored
HistoryParams == {<<2, 0>>, <<2, 1>>}
\* (limit, offset) pairs of the history requests PageSpec explores
PageParams == {<<l, o>> : l \in 1 .. MaxLimit, o \in 0 .. MaxOffset}

\* ------------------------------------------------------ the data model
NoWallet == [exists |-> FALSE, balance |-> 0, version |-> 0]
NoRow == [type |-> "none", amount |-> 0, status |-> "none"]
NoResult == [err |-> "none", msg |-> "", balance |-> 0, newBalance |-> 0,
             status |-> "none",
             txs |-> <<>>, total |-> 0, page |-> 0, limit |-> 0, totalPages |-> 0]

TransactionTypeWithdraw == "withdraw"
TransactionTypeDeposit == "deposit"
TransactionStatusPending == "pending"
TransactionStatusCompleted == "completed"
TransactionStatusFailed == "failed"

\* a value written to a DECIMAL(15,2) column: rounded to whole cents, half
\* away from zero (x in ticks, x >= 0 wherever the store accepts it)
RoundCents(x) ==
  IF x >= 0 THEN ((2 * x + CentTicks) \div (2 * CentTicks)) * CentTicks
  ELSE 0 - (((2 * (0 - x) + CentTicks) \div (2 * CentTicks)) * CentTicks)

\* CHECK (balance >= 0) of table wallets, on the value as stored
WalletBalanceCheck(balance) == balance >= 0

\* CHECK (amount > 0) of table transactions, on the value as stored
TransactionAmountCheck(amount) == amount > 0

VARIABLES
  wallets,       \* committed wallets rows, by owning user
  transactions,  \* committed transactions rows of each wallet, oldest first
  lock,          \* the worker whose open unit holds the row lock of a wallet
  cache,         \* redis: history pages by key
  pc,            \* where each worker's call stands
  call,          \* the locals of each worker's call
  deposited,     \* sum of the amounts of the committed deposits, as recorded
  withdrawn,     \* sum of the amounts of the committed withdrawals, as recorded
  committed,     \* number of committed mutations of each wallet
  invalidated,   \* rows of the wallet as of the newest mutation whose cache
                 \* invalidation succeeded before it returned
  last           \* the call that returned in the last step, and what it returned

vars == <<wallets, transactions, lock, cache, pc, call, deposited, withdrawn, committed,
          invalidated, last>>
store == <<wallets, transactions>>
audit == <<deposited, withdrawn, committed>>
ledger == <<store, audit, invalidated>>

NoCall == [op |-> "none", user |-> NoUser, amount |-> 0, limit |-> 0, offset |-> 0,
           wallet |-> NoWallet, newBalance |-> 0, newVersion |-> 0,
           txn |-> NoRow, upd |-> NoWallet, keys |-> {},
           txs |-> <<>>, total |-> 0, ops |-> <<>>]

\* no call returned in the last step
NoLast == [worker |-> NoWorker, result |-> NoResult, call |-> NoCall]

\* the cache key "transactions:<user>:<page>:<limit>"
CacheKey(u, page, limit) == <<u, page, limit>>
CacheKeys == {CacheKey(u, (p[2] \div p[1]) + 1, p[1]) :
                u \in Users, p \in HistoryParams \cup PageParams}
\* the time to live cache.Set gives an entry, in minutes
CacheTTLMinutes == 5
NoEntry == [present |-> FALSE, txs |-> <<>>, total |-> 0, page |-> 0, limit |-> 0,
            totalPages |-> 0, ttl |-> 0]

Init ==
  /\ wallets = [u \in Users |-> NoWallet]
  /\ transactions = [u \in Users |-> <<>>]
  /\ lock = [u \in Users |-> NoWorker]
  /\ cache = [k \in CacheKeys |-> NoEntry]
  /\ pc = [w \in Workers |-> "idle"]
  /\ call = [w \in Workers |-> NoCall]
  /\ deposited = [u \in Users |-> 0]
  /\ withdrawn = [u \in Users |-> 0]
  /\ committed = [u \in Users |-> 0]
  /\ invalidated = [u \in Users |-> 0]
  /\ last = NoLast

\* the response constructors of internal/commons/response, by name
BadRequestError(msg) == [NoResult EXCEPT !.err = "BadRequestError", !.msg = msg]
\* a variant that does not tell a missing record from other store failures
NotFoundAsRepositoryError(msg) == [NoResult EXCEPT !.err = "RepositoryError", !.msg = msg]
NotFoundError(msg) == [NoResult EXCEPT !.err = "NotFoundError", !.msg = msg]
RepositoryError(msg) == [NoResult EXCEPT !.err = "RepositoryError", !.msg = msg]
\* a variant that reports a general failure as a repository error
GeneralAsRepositoryError(msg) == [NoResult EXCEPT !.err = "RepositoryError", !.msg = msg]
GeneralError(msg) == [NoResult EXCEPT !.err = "GeneralError", !.msg = msg]

\* the call of w, whose locals are c, returns r to its caller and the worker is
\* free again; ops are the operations of its last step
Return(w, c, r, ops) ==
  /\ pc' = [pc EXCEPT ![w] = "idle"]
  /\ call' = [call EXCEPT ![w] = NoCall]
  /\ last' = [worker |-> w, result |-> r,
              call |-> [NoCall EXCEPT !.op = c.op, !.user = c.user, !.amount = c.amount,
                                      !.limit = c.limit, !.offset = c.offset,
                                      !.wallet = c.wallet, !.ops = c.ops \o ops]]

\* a step that returns nothing to a caller
Quiet == last' = NoLast

\* a variant of the unit's end that releases nothing
ReleaseNoLocks(w) == UNCHANGED lock

\* the end of a unit of work releases the row locks it holds
ReleaseLocks(w) ==
  lock' = [u \in Users |-> IF lock[u] = w THEN NoWorker ELSE lock[u]]

\* a variant of the unit's end that keeps the row lock of a failed unit
RollbackKeepsLock(w) == UNCHANGED lock

\* a variant of the rollback that ends every open unit
RollbackReleasesAll(w) == lock' = [u \in Users |-> NoWorker]

\* tx.Rollback(): the staged writes of the unit are dropped (they live in the
\* locals of the call, which end with it) and its row lock is released; after
\* a commit it finds nothing to do
Rollback(w) == ReleaseLocks(w)

\* a failed step op of an open unit: the error is returned with no response
\* and the deferred tx.Rollback() runs
Abort(w, c, r, op) ==
  /\ Return(w, c, r, <<op, "rollback">>)
  /\ Rollback(w)
  /\ UNCHANGED <<ledger, cache>>

\* ---------------------------------------------------------- CreateWallet
\* a variant of the new wallet that starts at version 0
NewWalletVersionZero == [exists |-> TRUE, balance |-> RoundCents(0), version |-> 0]

\* the wallet CreateWallet inserts: Balance 0.0, Version 1
NewWallet == [exists |-> TRUE, balance |-> RoundCents(0), version |-> 1]

\* a variant of the table without the unique index on user_id
NoUniqueIndex(row) == TRUE

\* the unique index on user_id: an insert needs the user to own no wallet
UserIDUnique(row) == ~row.exists

\* repo.Create of the new wallet, in one INSERT
CreateWallet(w, u) ==
  /\ pc[w] = "idle"
  /\ \E ok \in BOOLEAN :
       LET c == [NoCall EXCEPT !.op = "create", !.user = u] IN
       IF ok /\ UserIDUnique(wallets[u]) /\ WalletBalanceCheck(NewWallet.balance)
       THEN /\ wallets' = [wallets EXCEPT ![u] = NewWallet]
            /\ Return(w, c, [NoResult EXCEPT !.err = "nil"], <<"create">>)
            /\ UNCHANGED <<transactions, lock, cache, audit, invalidated>>
       ELSE /\ Return(w, c, RepositoryError("failed to create wallet"), <<"create">>)
            /\ UNCHANGED <<ledger, lock, cache>>

\* ------------------------------------------------------------- GetBalance
\* a variant of the read that sees the balance an open unit has staged
GetByUserIDDirty(u) ==
  IF \E x \in Workers : pc[x] \in {"updated", "completed"} /\ call[x].user = u
  THEN call[CHOOSE x \in Workers : pc[x] \in {"updated", "completed"} /\ call[x].user = u].upd
  ELSE wallets[u]

\* repo.GetByUserID: a plain SELECT of the user's wallet outside any unit; it
\* takes no lock, waits for none and sees the row as last committed
GetByUserID(u) == wallets[u]

\* GetBalance: one read of the wallet, then the response with its balance
GetBalance(w, u) ==
  /\ pc[w] = "idle"
  /\ \E ok \in BOOLEAN :
       LET c == [NoCall EXCEPT !.op = "balance", !.user = u]
           wallet == GetByUserID(u)
       IN /\ IF ~ok
             THEN Return(w, c, RepositoryError("failed to get wallet"), <<"get_wallet">>)
             ELSE IF ~wallet.exists
             THEN Return(w, c, NotFoundError("wallet not found"), <<"get_wallet">>)
             ELSE Return(w, [c EXCEPT !.wallet = wallet],
                         [NoResult EXCEPT !.err = "nil", !.balance = wallet.balance],
                         <<"get_wallet">>)
          /\ UNCHANGED <<ledger, lock, cache>>

\* ------------------------------------------------- Withdraw and Deposit
\* a variant of the amount test that lets a zero amount through
NegativeAmount(a) == a < 0

\* the test req.Amount <= 0 that opens Withdraw and Deposit
InvalidAmount(a) == a <= 0

\* the amount check and BeginTx of a mutation op of user u with amount a
BeginMutation(w, op, u, a, invalid) ==
  /\ pc[w] = "idle"
  /\ LET c == [NoCall EXCEPT !.op = op, !.user = u, !.amount = a] IN
     IF InvalidAmount(a)
     THEN /\ Return(w, c, BadRequestError(invalid), <<>>)
          /\ UNCHANGED <<ledger, lock, cache>>
     ELSE \E ok \in BOOLEAN :
            IF ok
            THEN /\ pc' = [pc EXCEPT ![w] = "begun"]
                 /\ Quiet
                 /\ call' = [call EXCEPT ![w] = [c EXCEPT !.ops = <<"begin">>]]
                 /\ UNCHANGED <<ledger, lock, cache>>
            ELSE /\ Return(w, c, GeneralError("failed to begin transaction"), <<"begin">>)
                 /\ UNCHANGED <<ledger, lock, cache>>

Withdraw(w, u, a) ==
  BeginMutation(w, TransactionTypeWithdraw, u, a, "invalid amount")

Deposit(w, u, a) ==
  BeginMutation(w, TransactionTypeDeposit, u, a, "invalid deposit amount")

\* a variant of Withdraw without the balance test
NoBalanceTest(op, balance, amount) == FALSE

\* a variant with the balance test in Deposit instead of Withdraw
BalanceTestInDeposit(op, balance, amount) ==
  op = TransactionTypeDeposit /\ balance < amount

\* a variant of the balance test that refuses to empty the wallet
BalanceNotAbove(op, balance, amount) ==
  op = TransactionTypeWithdraw /\ balance <= amount

\* Withdraw's test wallet.Balance < req.Amount; Deposit has none
InsufficientBalance(op, balance, amount) ==
  op = TransactionTypeWithdraw /\ balance < amount

\* newBalance := wallet.Balance -/+ req.Amount
NewBalance(op, balance, amount) ==
  IF op = TransactionTypeWithdraw THEN balance - amount ELSE balance + amount

\* a variant that reads the wallet with a plain SELECT: it neither waits for
\* the row lock nor takes it
GetByUserIDInUnit(w) ==
  /\ pc[w] = "begun"
  /\ LET c == call[w]
         u == c.user
         row == wallets[u]
     IN \E ok \in BOOLEAN :
          IF ~ok
          THEN Abort(w, call[w], RepositoryError("failed to get wallet for update"), "for_update")
          ELSE IF ~row.exists
          THEN Abort(w, call[w], NotFoundError("wallet not found"), "for_update")
          ELSE IF InsufficientBalance(c.op, row.balance, c.amount)
               THEN Abort(w, [c EXCEPT !.wallet = row],
                          BadRequestError("insufficient balance"), "for_update")
               ELSE /\ Len(transactions[u]) < MaxRows
                    /\ pc' = [pc EXCEPT ![w] = "locked"]
                    /\ Quiet
                    /\ call' = [call EXCEPT
                         ![w].wallet = row,
                         ![w].newBalance = NewBalance(c.op, row.balance, c.amount),
                         ![w].newVersion = row.version + 1,
                         ![w].ops = Append(@, "for_update")]
                    /\ UNCHANGED <<ledger, cache, lock>>

\* a variant of the lock that covers the whole table: it is free only while
\* no unit holds any row
TableFree(u) == \A v \in Users : lock[v] = NoWorker

\* a variant of the lock that never makes a reader wait
RowAlwaysFree(u) == TRUE

\* FOR UPDATE locks the one row the SELECT returns: the read goes on when no
\* other unit holds the row of this user
RowFree(u) == lock[u] = NoWorker

\* SELECT ... FOR UPDATE of the user's wallet inside the unit, then the balance
\* test and the new balance and version.  The read waits while another unit
\* holds the row, and then sees the row as last committed.
GetByUserIDForUpdate(w) ==
  /\ pc[w] = "begun"
  /\ LET c == call[w]
         u == c.user
         row == wallets[u]
     IN \E ok \in BOOLEAN :
          IF ~ok
          THEN Abort(w, call[w], RepositoryError("failed to get wallet for update"), "for_update")
          ELSE IF ~row.exists
          THEN Abort(w, call[w], NotFoundError("wallet not found"), "for_update")
          ELSE /\ RowFree(u)
               /\ IF InsufficientBalance(c.op, row.balance, c.amount)
                  THEN Abort(w, [c EXCEPT !.wallet = row],
                             BadRequestError("insufficient balance"), "for_update")
                  ELSE /\ Len(transactions[u]) < MaxRows
                       /\ lock' = [lock EXCEPT ![u] = w]
                       /\ pc' = [pc EXCEPT ![w] = "locked"]
                       /\ Quiet
                       /\ call' = [call EXCEPT
                            ![w].wallet = row,
                            ![w].newBalance = NewBalance(c.op, row.balance, c.amount),
                            ![w].newVersion = row.version + 1,
                            ![w].ops = Append(@, "for_update")]
                       /\ UNCHANGED <<ledger, cache>>

\* a variant of the new row that is completed from the start
NewTransactionCompleted(op, amount) ==
  [type |-> op, amount |-> amount, status |-> TransactionStatusCompleted]

\* the row the call builds: its type, the amount, Status pending
NewTransaction(op, amount) ==
  [type |-> op, amount |-> amount, status |-> TransactionStatusPending]

\* INSERT of the transaction row, status pending, inside the unit
CreateTransaction(w) ==
  /\ pc[w] = "locked"
  /\ LET c == call[w]
         stored == RoundCents(c.amount)
     IN \E ok \in BOOLEAN :
          IF ok /\ TransactionAmountCheck(stored)
          THEN /\ pc' = [pc EXCEPT ![w] = "inserted"]
               /\ Quiet
               /\ call' = [call EXCEPT
                    ![w].txn = NewTransaction(c.op, stored),
                    ![w].ops = Append(@, "insert")]
               /\ UNCHANGED <<ledger, lock, cache>>
          ELSE Abort(w, call[w], RepositoryError("failed to create transaction"), "insert")

\* a variant of the UPDATE that leaves the version column out
UpdateBalanceOnly(newBalance, version) ==
  [exists |-> TRUE, balance |-> RoundCents(newBalance), version |-> version - 1]

\* Updates(map{"balance": newBalance, "version": version}): the row as the
\* UPDATE writes it
UpdateValues(newBalance, version) ==
  [exists |-> TRUE, balance |-> RoundCents(newBalance), version |-> version]

\* a variant of the UPDATE without the version in its WHERE clause
AnyVersion(row, version) == IF row.exists THEN 1 ELSE 0

\* rows matched by UPDATE wallets ... WHERE id = ? AND version = ?  (version - 1)
RowsAffected(row, version) ==
  IF row.exists /\ row.version = version - 1 THEN 1 ELSE 0

\* what repo.UpdateBalance returns: the error of the statement (ok is false
\* when the store fails; a matched row whose new balance breaks the CHECK
\* fails the statement too), the optimistic lock error when the statement
\* matched no row, nil otherwise
UpdateBalanceResult(row, newBalance, version, ok) ==
  IF ~ok THEN "failed to update wallet balance"
  ELSE IF RowsAffected(row, version) = 0 THEN "optimistic lock error"
  ELSE IF ~WalletBalanceCheck(UpdateValues(newBalance, version).balance)
       THEN "failed to update wallet balance"
       ELSE "nil"

\* the conditional UPDATE of balance and version inside the unit; an UPDATE
\* takes the row lock itself when the unit does not hold it yet
UpdateBalance(w) ==
  /\ pc[w] = "inserted"
  /\ LET c == call[w]
         u == c.user
         stored == UpdateValues(c.newBalance, c.newVersion)
     IN \E ok \in BOOLEAN :
          LET err == UpdateBalanceResult(wallets[u], c.newBalance, c.newVersion, ok) IN
          IF ok
          THEN /\ lock[u] \in {NoWorker, w}
               /\ IF err = "nil"
                  THEN /\ lock' = [lock EXCEPT ![u] = w]
                       /\ pc' = [pc EXCEPT ![w] = "updated"]
                       /\ Quiet
                       /\ call' = [call EXCEPT
                            ![w].upd = stored,
                            ![w].ops = Append(@, "update")]
                       /\ UNCHANGED <<ledger, cache>>
                  ELSE Abort(w, call[w], RepositoryError("failed to update wallet balance"),
                             IF err = "optimistic lock error" THEN "update_no_rows"
                             ELSE "update")
          ELSE Abort(w, call[w], RepositoryError("failed to update wallet balance"), "update")

\* transaction.Status = completed, then UPDATE transactions SET status
UpdateTransactionStatus(w) ==
  /\ pc[w] = "updated"
  /\ \E ok \in BOOLEAN :
       IF ok
       THEN /\ pc' = [pc EXCEPT ![w] = "completed"]
            /\ Quiet
            /\ call' = [call EXCEPT ![w].txn.status = TransactionStatusCompleted,
                                    ![w].ops = Append(@, "status")]
            /\ UNCHANGED <<ledger, lock, cache>>
       ELSE Abort(w, call[w], RepositoryError("failed to update transaction status"), "status")

\* a variant of the commit that keeps the newest row only
OnlyNewestRow(rows, txn) == <<txn>>

\* the rows of a wallet once the INSERT of the unit is durable: the rows it
\* had, and the new row last
CommittedRows(rows, txn) == Append(rows, txn)

\* tx.Commit(): the staged row and the staged balance become durable together
\* and the row lock is released
Commit(w) ==
  /\ pc[w] = "completed"
  /\ LET c == call[w]
         u == c.user
     IN \E ok \in BOOLEAN :
          IF ok
          THEN /\ wallets' = [wallets EXCEPT ![u] = c.upd]
               /\ transactions' = [transactions EXCEPT ![u] = CommittedRows(@, c.txn)]
               /\ ReleaseLocks(w)
               /\ pc' = [pc EXCEPT ![w] = "committed"]
               /\ Quiet
               /\ call' = [call EXCEPT ![w].ops = Append(@, "commit")]
               /\ deposited' = [deposited EXCEPT ![u] =
                                  IF c.op = TransactionTypeDeposit THEN @ + c.txn.amount ELSE @]
               /\ withdrawn' = [withdrawn EXCEPT ![u] =
                                  IF c.op = TransactionTypeWithdraw THEN @ + c.txn.amount ELSE @]
               /\ committed' = [committed EXCEPT ![u] = @ + 1]
               /\ UNCHANGED <<cache, invalidated>>
          ELSE Abort(w, call[w], RepositoryError("failed to commit transaction"), "commit")

\* the response of a committed mutation: the balance as computed, not as stored
MutationResponse(c) ==
  [NoResult EXCEPT !.err = "nil", !.newBalance = c.newBalance, !.status = c.txn.status]

\* the invalidation of a mutation succeeded: its row is the c.newVersion - 1 th
Invalidated(c) ==
  invalidated' = [invalidated EXCEPT ![c.user] =
                    IF c.newVersion - 1 > @ THEN c.newVersion - 1 ELSE @]

\* a variant of the pattern that matches the first page of the user only
MatchesFirstPage(k, u) == k[1] = u /\ k[2] = 1

\* a variant of the pattern that matches the pages of every user
MatchesAnyUser(k, u) == TRUE

\* the pattern "transactions:<user>:*": every page and limit of the user
MatchesPattern(k, u) == k[1] = u

\* cache.Keys("transactions:<user>:*") after the commit; with no key found, or
\* with the scan failing, the call returns at once
InvalidateKeys(w) ==
  /\ pc[w] = "committed"
  /\ LET c == call[w]
         found == {k \in CacheKeys : MatchesPattern(k, c.user) /\ cache[k].present}
     IN \E ok \in BOOLEAN :
          IF ok /\ found # {}
          THEN /\ pc' = [pc EXCEPT ![w] = "scanned"]
               /\ Quiet
               /\ call' = [call EXCEPT ![w].keys = found, ![w].ops = Append(@, "keys")]
               /\ UNCHANGED <<ledger, lock, cache>>
          ELSE /\ Return(w, c, MutationResponse(c),
                         <<IF ok THEN "keys" ELSE "keys_failed", "rollback">>)
               /\ Rollback(w)
               /\ IF ok THEN Invalidated(c) ELSE UNCHANGED invalidated
               /\ UNCHANGED <<store, audit, cache>>

\* a variant that fails the call when the delete fails
InvalidateDelStrict(w) ==
  /\ pc[w] = "scanned"
  /\ LET c == call[w] IN
     \E ok \in BOOLEAN :
       /\ cache' = IF ok THEN [k \in CacheKeys |-> IF k \in c.keys THEN NoEntry ELSE cache[k]]
                   ELSE cache
       /\ Return(w, c, IF ok THEN MutationResponse(c)
                       ELSE GeneralError("failed to invalidate cache"),
                 <<IF ok THEN "del" ELSE "del_failed", "rollback">>)
       /\ Rollback(w)
       /\ IF ok THEN Invalidated(c) ELSE UNCHANGED invalidated
       /\ UNCHANGED <<store, audit>>

\* cache.Del(keys...) of the keys the scan found, then the response
InvalidateDel(w) ==
  /\ pc[w] = "scanned"
  /\ LET c == call[w] IN
     \E ok \in BOOLEAN :
       /\ cache' = IF ok THEN [k \in CacheKeys |-> IF k \in c.keys THEN NoEntry ELSE cache[k]]
                   ELSE cache
       /\ Return(w, c, MutationResponse(c),
                 <<IF ok THEN "del" ELSE "del_failed", "rollback">>)
       /\ Rollback(w)
       /\ IF ok THEN Invalidated(c) ELSE UNCHANGED invalidated
       /\ UNCHANGED <<store, audit>>

\* ------------------------------------------------- GetTransactionHistory
\* page := (offset / limit) + 1
PageNumber(limit, offset) == (offset \div limit) + 1

\* a variant of the page in ascending order of creation, oldest first
GetTransactionsAscending(rows, limit, offset) ==
  LET n == Len(rows)
      upto == IF offset + limit < n THEN offset + limit ELSE n
  IN SubSeq(rows, offset + 1, upto)

\* ORDER BY created_at DESC LIMIT limit OFFSET offset over the rows of a wallet
\* (rows are kept oldest first)
GetTransactionsByWalletID(rows, limit, offset) ==
  LET n == Len(rows)
      desc == [i \in 1 .. n |-> rows[n - i + 1]]
      upto == IF offset + limit < n THEN offset + limit ELSE n
  IN SubSeq(desc, offset + 1, upto)

\* SELECT count(*) over the rows of a wallet
CountTransactionsByWalletID(rows) == Len(rows)

\* a variant that divides without rounding up
FloorPages(total, limit) == total \div limit

\* int(math.Ceil(float64(total) / float64(limit)))
TotalPages(total, limit) == (total + limit - 1) \div limit

\* a variant that reads the cache and goes on to the store whatever it found
GetTransactionHistoryFromStore(w, u, limit, offset) ==
  /\ pc[w] = "idle"
  /\ \E ok \in BOOLEAN :
       LET c == [NoCall EXCEPT !.op = "history", !.user = u,
                               !.limit = limit, !.offset = offset]
       IN /\ pc' = [pc EXCEPT ![w] = "h_lookup"]
          /\ Quiet
          /\ call' = [call EXCEPT ![w] =
                       [c EXCEPT !.ops = <<IF ok THEN "cache_get"
                                           ELSE "cache_get_failed">>]]
          /\ UNCHANGED <<ledger, lock, cache>>

\* cache.Get of the page's key: a hit returns the cached page, a miss or a
\* cache failure goes on to the store
GetTransactionHistory(w, u, limit, offset) ==
  /\ pc[w] = "idle"
  /\ \E ok \in BOOLEAN :
       LET key == CacheKey(u, PageNumber(limit, offset), limit)
           c == [NoCall EXCEPT !.op = "history", !.user = u,
                               !.limit = limit, !.offset = offset]
       IN IF ok /\ cache[key].present
          THEN /\ Return(w, c, [NoResult EXCEPT !.err = "nil",
                                  !.txs = cache[key].txs, !.total = cache[key].total,
                                  !.page = cache[key].page, !.limit = cache[key].limit,
                                  !.totalPages = cache[key].totalPages],
                         <<"cache_get">>)
               /\ UNCHANGED <<ledger, lock, cache>>
          ELSE /\ pc' = [pc EXCEPT ![w] = "h_lookup"]
               /\ Quiet
               /\ call' = [call EXCEPT ![w] =
                            [c EXCEPT !.ops = <<IF ok THEN "cache_get"
                                                ELSE "cache_get_failed">>]]
               /\ UNCHANGED <<ledger, lock, cache>>

\* repo.GetByUserID: the wallet of the user, read outside any unit
HistoryLookup(w) ==
  /\ pc[w] = "h_lookup"
  /\ \E ok \in BOOLEAN :
       /\ IF ~ok
          THEN Return(w, call[w], RepositoryError("failed to get wallet"), <<"get_wallet">>)
          ELSE IF ~wallets[call[w].user].exists
          THEN Return(w, call[w], NotFoundError("wallet not found"), <<"get_wallet">>)
          ELSE /\ pc' = [pc EXCEPT ![w] = "h_list"]
               /\ Quiet
               /\ call' = [call EXCEPT ![w].ops = Append(@, "get_wallet")]
       /\ UNCHANGED <<ledger, lock, cache>>

\* a variant of the read that also sees the rows open units have inserted
VisibleRowsDirty(u) ==
  LET x == CHOOSE y \in Workers :
             (pc[y] \in {"inserted", "updated", "completed"} /\ call[y].user = u)
             \/ \A z \in Workers :
                  ~(pc[z] \in {"inserted", "updated", "completed"} /\ call[z].user = u)
  IN IF pc[x] \in {"inserted", "updated", "completed"} /\ call[x].user = u
     THEN Append(transactions[u], call[x].txn)
     ELSE transactions[u]

\* the rows of the wallet of u a statement outside any unit sees: the
\* committed ones
VisibleRows(u) == transactions[u]

\* repo.GetTransactionsByWalletID: the page of committed rows
HistoryList(w) ==
  /\ pc[w] = "h_list"
  /\ LET c == call[w] IN
     \E ok \in BOOLEAN :
       /\ IF ~ok
          THEN Return(w, c, RepositoryError("failed to get transaction history"), <<"list">>)
          ELSE /\ pc' = [pc EXCEPT ![w] = "h_count"]
               /\ Quiet
               /\ call' = [call EXCEPT
                    ![w].txs = GetTransactionsByWalletID(VisibleRows(c.user),
                                                         c.limit, c.offset),
                    ![w].ops = Append(@, "list")]
       /\ UNCHANGED <<ledger, lock, cache>>

\* a variant of the count that, when it fails, caches a page without a total
HistoryCountCachesOnFailure(w) ==
  /\ pc[w] = "h_count"
  /\ LET c == call[w]
         total == CountTransactionsByWalletID(VisibleRows(c.user))
         key == CacheKey(c.user, PageNumber(c.limit, c.offset), c.limit)
     IN \E ok \in BOOLEAN :
          IF ~ok
          THEN /\ Return(w, c, RepositoryError("failed to get total transactions"),
                         <<"count">>)
               /\ cache' = [cache EXCEPT ![key] =
                              [present |-> TRUE, txs |-> c.txs, total |-> 0,
                               page |-> PageNumber(c.limit, c.offset), limit |-> c.limit,
                               totalPages |-> 0, ttl |-> CacheTTLMinutes]]
               /\ UNCHANGED <<ledger, lock>>
          ELSE /\ pc' = [pc EXCEPT ![w] = "h_set"]
               /\ Quiet
               /\ call' = [call EXCEPT ![w].total = total,
                                       ![w].ops = Append(@, "count")]
               /\ UNCHANGED <<ledger, lock, cache>>

\* repo.CountTransactionsByWalletID
HistoryCount(w) ==
  /\ pc[w] = "h_count"
  /\ LET c == call[w]
         total == CountTransactionsByWalletID(VisibleRows(c.user))
     IN \E ok \in BOOLEAN :
          /\ IF ~ok
             THEN Return(w, c, RepositoryError("failed to get total transactions"),
                         <<"count">>)
             ELSE /\ pc' = [pc EXCEPT ![w] = "h_set"]
                  /\ Quiet
                  /\ call' = [call EXCEPT ![w].total = total,
                                          ![w].ops = Append(@, "count")]
          /\ UNCHANGED <<ledger, lock, cache>>

\* a variant that fails the call when the cache write fails
HistorySetStrict(w) ==
  /\ pc[w] = "h_set"
  /\ LET c == call[w]
         r == [NoResult EXCEPT !.err = "nil", !.txs = c.txs, !.total = c.total,
                                !.page = PageNumber(c.limit, c.offset),
                                !.limit = c.limit,
                                !.totalPages = TotalPages(c.total, c.limit)]
         key == CacheKey(c.user, PageNumber(c.limit, c.offset), c.limit)
     IN \E ok \in BOOLEAN :
          /\ cache' = IF ok
                      THEN [cache EXCEPT ![key] =
                              [present |-> TRUE, txs |-> r.txs, total |-> r.total,
                               page |-> r.page, limit |-> r.limit,
                               totalPages |-> r.totalPages, ttl |-> CacheTTLMinutes]]
                      ELSE cache
          /\ Return(w, c, IF ok THEN r ELSE RepositoryError("failed to cache"),
                    <<IF ok THEN "cache_set" ELSE "cache_set_failed">>)
          /\ UNCHANGED <<ledger, lock>>

\* a variant that returns the response without writing it to the cache
HistoryNoSet(w) ==
  /\ pc[w] = "h_set"
  /\ LET c == call[w]
         r == [NoResult EXCEPT !.err = "nil", !.txs = c.txs, !.total = c.total,
                                !.page = PageNumber(c.limit, c.offset),
                                !.limit = c.limit,
                                !.totalPages = TotalPages(c.total, c.limit)]
     IN \E ok \in BOOLEAN :
          /\ Return(w, c, r, <<IF ok THEN "cache_set" ELSE "cache_set_failed">>)
          /\ UNCHANGED <<ledger, lock, cache>>

\* the response is assembled and cache.Set writes it under the page's key (a
\* failure is only logged); then the response is returned
HistorySet(w) ==
  /\ pc[w] = "h_set"
  /\ LET c == call[w]
         r == [NoResult EXCEPT !.err = "nil", !.txs = c.txs, !.total = c.total,
                                !.page = PageNumber(c.limit, c.offset),
                                !.limit = c.limit,
                                !.totalPages = TotalPages(c.total, c.limit)]
         key == CacheKey(c.user, PageNumber(c.limit, c.offset), c.limit)
     IN \E ok \in BOOLEAN :
          /\ cache' = IF ok
                      THEN [cache EXCEPT ![key] =
                              [present |-> TRUE, txs |-> r.txs, total |-> r.total,
                               page |-> r.page, limit |-> r.limit,
                               totalPages |-> r.totalPages, ttl |-> CacheTTLMinutes]]
                      ELSE cache
          /\ Return(w, c, r, <<IF ok THEN "cache_set" ELSE "cache_set_failed">>)
          /\ UNCHANGED <<ledger, lock>>

\* a cached page reaches its time to live and redis drops it
Expire ==
  \E k \in CacheKeys :
    /\ cache[k].present
    /\ cache' = [cache EXCEPT ![k] = NoEntry]
    /\ Quiet
    /\ UNCHANGED <<ledger, lock, pc, call>>

Next ==
  \/ \E w \in Workers :
       \/ \E u \in Accounts : CreateWallet(w, u)
       \/ \E u \in Accounts, a \in Amounts : Withdraw(w, u, a)
       \/ \E u \in Accounts, a \in Amounts : Deposit(w, u, a)
       \/ \E u \in Accounts, p \in HistoryParams : GetTransactionHistory(w, u, p[1], p[2])
       \/ GetByUserIDForUpdate(w)
       \/ CreateTransaction(w)
       \/ UpdateBalance(w)
       \/ UpdateTransactionStatus(w)
       \/ Commit(w)
       \/ InvalidateKeys(w)
       \/ InvalidateDel(w)
       \/ HistoryLookup(w)
       \/ HistoryList(w)
       \/ HistoryCount(w)
       \/ HistorySet(w)
  \/ Expire

Spec == Init /\ [][Next]_vars

\* ------------------------------------------------- the history of a wallet
\* the sum 1 + ... + n
SumTo(n) == (n * (n + 1)) \div 2

\* a wallet that n deposits of 1, 2, ... n cents have built, all calls returned
PageInit ==
  \E n \in 0 .. MaxTotal :
    /\ wallets = [u \in Users |-> IF u \in Accounts
                                  THEN [exists |-> TRUE, balance |-> SumTo(n) * CentTicks,
                                        version |-> n + 1]
                                  ELSE NoWallet]
    /\ transactions = [u \in Users |->
                         IF u \in Accounts
                         THEN [i \in 1 .. n |-> [type |-> TransactionTypeDeposit,
                                                 amount |-> i * CentTicks,
                                                 status |-> TransactionStatusCompleted]]
                         ELSE <<>>]
    /\ lock = [u \in Users |-> NoWorker]
    /\ cache = [k \in CacheKeys |-> NoEntry]
    /\ pc = [w \in Workers |-> "idle"]
    /\ call = [w \in Workers |-> NoCall]
    /\ deposited = [u \in Users |-> IF u \in Accounts THEN SumTo(n) * CentTicks ELSE 0]
    /\ withdrawn = [u \in Users |-> 0]
    /\ committed = [u \in Users |-> IF u \in Accounts THEN n ELSE 0]
    /\ invalidated = [u \in Users |-> IF u \in Accounts THEN n ELSE 0]
    /\ last = NoLast

\* one caller at a time asks for pages of the history
PageNext ==
  \/ \E u \in Accounts, p \in PageParams : GetTransactionHistory("w1", u, p[1], p[2])
  \/ HistoryLookup("w1")
  \/ HistoryList("w1")
  \/ HistoryCount("w1")
  \/ HistorySet("w1")
  \/ Expire

PageSpec == PageInit /\ [][PageNext]_vars

\* ------------------------------------------------- the wallets of two users
\* the user whose withdrawals and deposits a worker carries
Client(w) == IF w = "w1" THEN "u1" ELSE "u2"

\* the calls on the wallets of two users: each worker mutates the wallet of
\* its own user and reads the balance of either; there is no history call, so
\* that no page is ever cached and the key scan finds none
LedgerNext ==
  \E w \in Workers :
    \/ \E u \in Users : CreateWallet(w, u)
    \/ \E a \in Amounts : Withdraw(w, Client(w), a)
    \/ \E a \in Amounts : Deposit(w, Client(w), a)
    \/ \E u \in Users : GetBalance(w, u)
    \/ GetByUserIDForUpdate(w)
    \/ CreateTransaction(w)
    \/ UpdateBalance(w)
    \/ UpdateTransactionStatus(w)
    \/ Commit(w)
    \/ InvalidateKeys(w)

LedgerSpec == Init /\ [][LedgerNext]_vars

\* ------------------------------------------- the cached pages of a wallet
\* (limit, offset) pairs of two pages of one row each
TwoPages == {<<1, 0>>, <<1, 1>>}

\* one caller asks for the two pages of the history while another withdraws
\* and deposits
InvalidationNext ==
  \/ \E u \in Accounts, p \in TwoPages : GetTransactionHistory("w1", u, p[1], p[2])
  \/ HistoryLookup("w1")
  \/ HistoryList("w1")
  \/ HistoryCount("w1")
  \/ HistorySet("w1")
  \/ \E u \in Accounts, a \in Amounts : Withdraw("w2", u, a)
  \/ \E u \in Accounts, a \in Amounts : Deposit("w2", u, a)
  \/ GetByUserIDForUpdate("w2")
  \/ CreateTransaction("w2")
  \/ UpdateBalance("w2")
  \/ UpdateTransactionStatus("w2")
  \/ Commit("w2")
  \/ InvalidateKeys("w2")
  \/ InvalidateDel("w2")
  \/ Expire

InvalidationSpec == PageInit /\ [][InvalidationNext]_vars

\* ------------------------------------------- the conditional balance update
\* the highest version of a stored row that UpdateSpec explores
MaxVersion == 3

\* a unit that has read its wallet at version rv with balance rb and inserted
\* its row is at the balance update, and the stored row is at version v >= rv
\* with balance b: other writers have advanced it v - rv times
UpdateInit ==
  \E rv \in 1 .. MaxVersion - 1, v \in 1 .. MaxVersion,
     rb \in 0 .. MaxAmount, b \in 0 .. MaxAmount,
     a \in 1 .. MaxAmount, op \in {TransactionTypeWithdraw, TransactionTypeDeposit} :
    /\ v >= rv
    /\ v = rv => b = rb
    /\ ~InsufficientBalance(op, rb * CentTicks, a)
    /\ TransactionAmountCheck(RoundCents(a))
    /\ wallets = [u \in Users |-> IF u \in Accounts
                                  THEN [exists |-> TRUE, balance |-> b * CentTicks,
                                        version |-> v]
                                  ELSE NoWallet]
    /\ transactions = [u \in Users |->
                         IF u \in Accounts
                         THEN [i \in 1 .. v - 1 |-> [type |-> TransactionTypeDeposit,
                                                     amount |-> CentTicks,
                                                     status |-> TransactionStatusCompleted]]
                         ELSE <<>>]
    /\ lock = [u \in Users |-> IF u \in Accounts THEN "w1" ELSE NoWorker]
    /\ cache = [k \in CacheKeys |-> NoEntry]
    /\ pc = [w \in Workers |-> IF w = "w1" THEN "inserted" ELSE "idle"]
    /\ call = [w \in Workers |->
                 IF w = "w1"
                 THEN [NoCall EXCEPT
                         !.op = op, !.user = CHOOSE u \in Accounts : TRUE, !.amount = a,
                         !.wallet = [exists |-> TRUE, balance |-> rb * CentTicks,
                                     version |-> rv],
                         !.newBalance = NewBalance(op, rb * CentTicks, a),
                         !.newVersion = rv + 1,
                         !.txn = NewTransaction(op, RoundCents(a)),
                         !.ops = <<"begin", "for_update", "insert">>]
                 ELSE NoCall]
    /\ deposited = [u \in Users |-> IF u \in Accounts THEN b * CentTicks ELSE 0]
    /\ withdrawn = [u \in Users |-> 0]
    /\ committed = [u \in Users |-> IF u \in Accounts THEN v - 1 ELSE 0]
    /\ invalidated = [u \in Users |-> 0]
    /\ last = NoLast

\* the unit goes on from its balance update
UpdateNext ==
  \/ UpdateBalance("w1")
  \/ UpdateTransactionStatus("w1")
  \/ Commit("w1")
  \/ InvalidateKeys("w1")

UpdateSpec == UpdateInit /\ [][UpdateNext]_vars

\* --------------------------------------------- mutations that must return
\* the store answers the request of the step: no call returns the error of a
\* failed store operation in it, other than the INSERT of an amount that the
\* column holds as 0.00, which the CHECK of the table refuses
NoStoreFailure ==
  \/ last'.result.err \notin {"RepositoryError", "GeneralError"}
  \/ \E w \in Workers :
       /\ pc[w] = "locked"
       /\ last'.worker = w
       /\ ~TransactionAmountCheck(RoundCents(call[w].amount))

\* the rows of a wallet and the mutations on their way to add one
Started(u) ==
  Len(transactions[u]) +
    Cardinality({w \in Workers : pc[w] # "idle" /\ call[w].user = u})

\* the wallet of the account exists, as CreateWallet has made it
LiveInit ==
  /\ wallets = [u \in Users |-> IF u \in Accounts THEN NewWallet ELSE NoWallet]
  /\ transactions = [u \in Users |-> <<>>]
  /\ lock = [u \in Users |-> NoWorker]
  /\ cache = [k \in CacheKeys |-> NoEntry]
  /\ pc = [w \in Workers |-> "idle"]
  /\ call = [w \in Workers |-> NoCall]
  /\ deposited = [u \in Users |-> 0]
  /\ withdrawn = [u \in Users |-> 0]
  /\ committed = [u \in Users |-> 0]
  /\ invalidated = [u \in Users |-> 0]
  /\ last = NoLast

\* a request reaches worker w, as long as the wallet has room for its row
LiveStart(w) ==
  \E u \in Accounts, a \in Amounts :
    /\ Started(u) < MaxRows
    /\ Withdraw(w, u, a) \/ Deposit(w, u, a)
    /\ NoStoreFailure

\* the next operation of the call of worker w, answered by the store
LiveStep(w) ==
  /\ \/ GetByUserIDForUpdate(w)
     \/ CreateTransaction(w)
     \/ UpdateBalance(w)
     \/ UpdateTransactionStatus(w)
     \/ Commit(w)
     \/ InvalidateKeys(w)
  /\ NoStoreFailure

LiveNext == \E w \in Workers : LiveStart(w) \/ LiveStep(w)

\* the locked read of worker w, answered by the store
LiveLockedRead(w) == GetByUserIDForUpdate(w) /\ NoStoreFailure

\* every goroutine that can take its next operation does take it, and the
\* store hands a row lock to the units that wait for it in their turn: a
\* locked read that finds the row free again and again is answered
LiveSpec ==
  /\ LiveInit /\ [][LiveNext]_vars
  /\ \A w \in Workers : WF_vars(LiveStep(w)) /\ SF_vars(LiveLockedRead(w))

\* --------------------------------------------- the cached pages of two users
\* both users have a wallet with n rows, deposits of 1 .. n cents, and room
\* for one more
SharedCacheInit ==
  \E n \in 0 .. MaxRows - 1 :
    /\ wallets = [u \in Users |-> [exists |-> TRUE, balance |-> SumTo(n) * CentTicks,
                                    version |-> n + 1]]
    /\ transactions = [u \in Users |->
                         [i \in 1 .. n |-> [type |-> TransactionTypeDeposit,
                                             amount |-> i * CentTicks,
                                             status |-> TransactionStatusCompleted]]]
    /\ lock = [u \in Users |-> NoWorker]
    /\ cache = [k \in CacheKeys |-> NoEntry]
    /\ pc = [w \in Workers |-> "idle"]
    /\ call = [w \in Workers |-> NoCall]
    /\ deposited = [u \in Users |-> SumTo(n) * CentTicks]
    /\ withdrawn = [u \in Users |-> 0]
    /\ committed = [u \in Users |-> n]
    /\ invalidated = [u \in Users |-> n]
    /\ last = NoLast

\* one caller asks for the first page of the history of either user while
\* another deposits into and withdraws from the wallet of one of them
SharedCacheNext ==
  \/ \E u \in Users : GetTransactionHistory("w1", u, 1, 0)
  \/ HistoryLookup("w1")
  \/ HistoryList("w1")
  \/ HistoryCount("w1")
  \/ HistorySet("w1")
  \/ \E u \in Accounts, a \in 1 .. MaxAmount : Withdraw("w2", u, a)
  \/ \E u \in Accounts, a \in 1 .. MaxAmount : Deposit("w2", u, a)
  \/ GetByUserIDForUpdate("w2")
  \/ CreateTransaction("w2")
  \/ UpdateBalance("w2")
  \/ UpdateTransactionStatus("w2")
  \/ Commit("w2")
  \/ InvalidateKeys("w2")
  \/ InvalidateDel("w2")

SharedCacheSpec == SharedCacheInit /\ [][SharedCacheNext]_vars

\* ------------------------------------------------------------ properties
MutationOps == {TransactionTypeWithdraw, TransactionTypeDeposit}

\* the positions of a call between its locked read and its commit
InUnit == {"locked", "inserted", "updated", "completed"}

\* the positions of a call after its commit
AfterCommit == {"committed", "scanned"}

Failed(r) == r.err \notin {"nil", "none"}

\* C1: no lost updates.  Once every call has returned, the balance of a wallet
\* (created with balance 0) is the sum of the amounts of its committed deposits
\* minus the sum of the amounts of its committed withdrawals, and its version is
\* 1 plus the number of its committed mutations.
NoLostUpdates ==
  (\A w \in Workers : pc[w] = "idle") =>
    \A u \in Users :
      wallets[u].exists =>
        /\ wallets[u].balance = deposited[u] - withdrawn[u]
        /\ wallets[u].version = 1 + committed[u]

\* C2: a balance changes if and only if exactly one completed row is added.
\* In every durable state a wallet has version - 1 rows, all of them completed,
\* and no step changes a balance without adding a row or adds a row without
\* changing the balance.
BalanceChangeIffNewRow ==
  [][\A u \in Users :
       /\ wallets'[u].exists =>
            /\ Len(transactions'[u]) = wallets'[u].version - 1
            /\ \A i \in 1 .. Len(transactions'[u]) :
                 transactions'[u][i].status = TransactionStatusCompleted
       /\ (wallets'[u].balance # wallets[u].balance)
            <=> (Len(transactions'[u]) = Len(transactions[u]) + 1)]_vars

\* C3: the balance of a wallet is never negative, neither as stored nor as the
\* new balance an open unit of work has computed for it.
BalanceNeverNegative ==
  /\ \A u \in Users : wallets[u].balance >= 0
  /\ \A w \in Workers : pc[w] \in InUnit => call[w].newBalance >= 0

\* C3 happens: a committed withdraw has drained a wallet to zero
WalletDrained ==
  \E u \in Users :
    wallets[u].exists /\ wallets[u].balance = 0 /\ withdrawn[u] > 0

\* C4: the version of a wallet starts at 1, goes up by exactly 1 in the step
\* that commits a withdraw or a deposit and in no other, and a withdraw or
\* deposit that returns an error has not committed and leaves it as it is.
VersionCountsCommits ==
  [][\A u \in Users :
       /\ (~wallets[u].exists /\ wallets'[u].exists) => wallets'[u].version = 1
       /\ wallets[u].exists =>
            /\ wallets'[u].exists
            /\ wallets'[u].version \in {wallets[u].version, wallets[u].version + 1}
            /\ (wallets'[u].version = wallets[u].version + 1)
                 <=> (committed'[u] = committed[u] + 1)
            /\ wallets'[u].version = 1 + committed'[u]
       /\ (last'.call.op \in MutationOps /\ last'.call.user = u /\ Failed(last'.result)) =>
            /\ wallets'[u].version = wallets[u].version
            /\ pc[last'.worker] \notin AfterCommit]_vars

\* C4 happens: a mutation fails on a wallet that two mutations have advanced
FailureAtVersionThree ==
  /\ last.call.op \in MutationOps
  /\ Failed(last.result)
  /\ wallets[last.call.user].version = 3

\* C5 as stated: the error of a withdraw of more than the balance is of another
\* kind than the error of a non-positive amount.
InsufficientBalanceKindDistinct ==
  (last.call.op = TransactionTypeWithdraw /\ last.result.msg = "insufficient balance") =>
    last.result.err # BadRequestError("invalid amount").err

\* C5: a withdraw whose locked read meets a balance smaller than its amount
\* returns in that step, with the bad request error "insufficient balance" (or
\* with the repository error of a failed read), and the step leaves the
\* wallets and the rows as they are.
InsufficientBalanceIsBadRequest ==
  [][\A w \in Workers :
       (/\ pc[w] = "begun"
        /\ pc'[w] # "begun"
        /\ call[w].op = TransactionTypeWithdraw
        /\ wallets[call[w].user].exists
        /\ wallets[call[w].user].balance < call[w].amount) =>
         /\ last'.worker = w
         /\ last'.result \in {BadRequestError("insufficient balance"),
                              RepositoryError("failed to get wallet for update")}
         /\ store' = store]_vars

\* C5 happens: after a committed withdraw, a withdraw of more than what is left
\* has been refused
WithdrawRefused ==
  /\ last.call.op = TransactionTypeWithdraw
  /\ last.result = BadRequestError("insufficient balance")
  /\ last.call.wallet.exists
  /\ withdrawn[last.call.user] > 0
  /\ last.call.wallet.balance < last.call.amount
  /\ wallets[last.call.user] = last.call.wallet

\* C6: a withdraw or deposit of a zero or negative amount returns the bad
\* request error of its amount test having performed no operation at all, on
\* the store or on the cache, and no call with such an amount is ever open.
NonPositiveAmountRejectedFirst ==
  [][/\ (last'.call.op \in MutationOps /\ last'.call.amount <= 0) =>
          /\ last'.result =
               BadRequestError(IF last'.call.op = TransactionTypeWithdraw
                               THEN "invalid amount" ELSE "invalid deposit amount")
          /\ last'.call.ops = <<>>
          /\ pc[last'.worker] = "idle"
          /\ UNCHANGED <<store, lock, cache>>
     /\ \A w \in Workers : call'[w].op \in MutationOps => call'[w].amount > 0]_vars

\* C6 happens: a deposit of a non-positive amount on an existing wallet
NonPositiveDepositRejected ==
  /\ last.call.op = TransactionTypeDeposit
  /\ last.call.amount <= 0
  /\ last.result.msg = "invalid deposit amount"
  /\ wallets[last.call.user].exists

\* C7: a unit of work that ends before its commit succeeds returns an error
\* and no response, its last operation is the rollback, it holds no row lock
\* afterwards, and neither that step nor any earlier step of the unit has
\* changed a wallet or a row.
FailedUnitLeavesNoTrace ==
  [][\A w \in Workers :
       /\ (pc[w] \in InUnit /\ pc'[w] = "idle") =>
            /\ last'.worker = w
            /\ Failed(last'.result)
            /\ last'.result = [NoResult EXCEPT !.err = last'.result.err,
                                               !.msg = last'.result.msg]
            /\ last'.call.ops[Len(last'.call.ops)] = "rollback"
            /\ \A u \in Users : lock'[u] # w
            /\ store' = store
       /\ (pc[w] \in InUnit \cup {"begun"} /\ pc'[w] \notin {pc[w], "committed"}) =>
            store' = store]_vars

\* C7 happens: the commit of a mutation has failed on a wallet at version 2,
\* which is as the locked read of that mutation found it
CommitFailed ==
  /\ last.result = RepositoryError("failed to commit transaction")
  /\ last.call.wallet.version = 2
  /\ wallets[last.call.user] = last.call.wallet
  /\ Len(transactions[last.call.user]) = 1

\* C8: once a mutation has returned with its invalidation succeeded, a history
\* call that is answered from the cache is not answered with a page of fewer
\* rows than the wallet had when that mutation committed.
NextHistoryNotStale ==
  (/\ last.call.op = "history"
   /\ last.result.err = "nil"
   /\ last.call.ops = <<"cache_get">>) =>
    last.result.total >= invalidated[last.call.user]

\* C9: a unit of work past its locked read holds the lock of the wallet's row,
\* and the balance and version it has read are the ones last committed.
LockedReadSeesCommitted ==
  \A w \in Workers :
    pc[w] \in InUnit =>
      /\ lock[call[w].user] = w
      /\ call[w].wallet = wallets[call[w].user]

\* C9 happens: a second mutation has read version 2 under the lock while the
\* first, which committed it, has not returned yet
SecondLockerReadsFirstCommit ==
  \E w, x \in Workers :
    /\ w # x
    /\ pc[w] = "locked"
    /\ pc[x] \in AfterCommit
    /\ call[w].user = call[x].user
    /\ call[w].wallet.version = 2
    /\ call[w].wallet = call[x].upd

\* C10: the commit of a withdraw of amount a from balance b and version v
\* leaves balance b - a and version v + 1, adds one completed withdraw row,
\* and the response carries new balance b - a and status completed.
WithdrawLeavesDifference ==
  [][\A w \in Workers :
       (pc[w] = "completed" /\ pc'[w] = "committed"
        /\ call[w].op = TransactionTypeWithdraw) =>
         LET u == call[w].user
             a == call[w].amount
             b == wallets[u].balance
             v == wallets[u].version
             n == Len(transactions[u])
         IN /\ wallets'[u].balance = b - a
            /\ wallets'[u].version = v + 1
            /\ Len(transactions'[u]) = n + 1
            /\ transactions'[u][n + 1].type = TransactionTypeWithdraw
            /\ transactions'[u][n + 1].status = TransactionStatusCompleted
            /\ MutationResponse(call'[w]).newBalance = b - a
            /\ MutationResponse(call'[w]).status = TransactionStatusCompleted]_vars

\* C11: two successful deposits of the same amount a on a fresh wallet
\* (balance 0, version 1) leave balance 2a and version 3, and the history of
\* the wallet is then exactly two completed deposit rows.  Stated at the
\* commit of the second deposit while the first, which found the wallet
\* fresh and has committed, is still on its way back to its caller.
TwoDepositsDouble ==
  [][\A w, x \in Workers :
       (/\ w # x
        /\ pc[w] = "completed" /\ pc'[w] = "committed"
        /\ pc[x] \in AfterCommit
        /\ call[w].op = TransactionTypeDeposit
        /\ call[x].op = TransactionTypeDeposit
        /\ call[x].user = call[w].user
        /\ call[x].amount = call[w].amount
        /\ call[x].wallet = [exists |-> TRUE, balance |-> 0, version |-> 1]) =>
         LET u == call[w].user
             a == call[w].amount
             page == GetTransactionsByWalletID(transactions'[u], 2, 0)
         IN /\ wallets'[u].balance = 2 * a
            /\ wallets'[u].version = 3
            /\ CountTransactionsByWalletID(transactions'[u]) = 2
            /\ Len(page) = 2
            /\ \A i \in 1 .. Len(page) :
                 /\ page[i].type = TransactionTypeDeposit
                 /\ page[i].status = TransactionStatusCompleted]_vars

\* a history response that was built from the store, not taken from the cache
BuiltFromStore ==
  /\ last.call.op = "history"
  /\ last.result.err = "nil"
  /\ Len(last.call.ops) > 1

\* C12: a history response built from the store carries the count of the
\* wallet's rows as total, the least number of pages of limit rows that hold
\* total rows as totalPages, and as page the number of the page of limit rows
\* that row offset falls into; so offset = k * limit gives page k + 1.
PaginationIdentity ==
  BuiltFromStore =>
    LET l == last.call.limit
        o == last.call.offset
        t == last.result.total
        tp == last.result.totalPages
        pg == last.result.page
    IN /\ l >= 1 /\ o >= 0
       /\ t = Len(transactions[last.call.user])
       /\ tp * l >= t
       /\ (tp - 1) * l < t
       /\ (pg - 1) * l <= o
       /\ o < pg * l
       /\ \A k \in 0 .. MaxOffset : o = k * l => pg = k + 1
       /\ last.result.limit = l

\* C12 happens: the second page of two rows out of three rows, from the store
SecondPageOfThree ==
  /\ BuiltFromStore
  /\ last.call.limit = 2
  /\ last.call.offset = 2
  /\ last.result.total = 3
  /\ last.result.page = 2
  /\ last.result.totalPages = 2

\* the cached entry e as a response
CachedResponse(e) ==
  [NoResult EXCEPT !.err = "nil", !.txs = e.txs, !.total = e.total, !.page = e.page,
                   !.limit = e.limit, !.totalPages = e.totalPages]

\* C13: a history call that starts while the cache holds an entry under its
\* key returns in its first step, the cache read, with the content of that
\* entry: it performs no other operation (no wallet lookup, no list, no count,
\* no cache write) and changes nothing.  Only a failed cache read sends it on
\* to the store.
CacheHitAnswersFromCache ==
  [][\A w \in Workers :
       (/\ pc[w] = "idle"
        /\ \/ pc'[w] = "h_lookup"
           \/ last'.worker = w /\ last'.call.op = "history") =>
         LET c == IF pc'[w] = "h_lookup" THEN call'[w] ELSE last'.call
             key == <<c.user, (c.offset \div c.limit) + 1, c.limit>>
         IN cache[key].present =>
              \/ /\ pc'[w] = "h_lookup"
                 /\ c.ops = <<"cache_get_failed">>
              \/ /\ pc'[w] = "idle"
                 /\ last'.result = CachedResponse(cache[key])
                 /\ c.ops = <<"cache_get">>
                 /\ UNCHANGED <<store, cache, lock>>]_vars

\* C13 happens: a call was answered from a cached page that holds rows
AnsweredFromCache ==
  /\ last.call.op = "history"
  /\ last.call.ops = <<"cache_get">>
  /\ last.result.err = "nil"
  /\ Len(last.result.txs) >= 1
  /\ last.result =
       CachedResponse(cache[<<last.call.user,
                              (last.call.offset \div last.call.limit) + 1,
                              last.call.limit>>])

\* the key of the page a history call c asks for
KeyOf(c) == <<c.user, (c.offset \div c.limit) + 1, c.limit>>

\* C14: a history call that goes to the store fails with the not found error
\* exactly when the user has no wallet (a failed lookup is a repository
\* error); otherwise it reads as its page the rows offset + 1 .. offset +
\* limit of the wallet counted from the newest, and as its total the number of
\* rows, returns them, and when the cache write succeeds the cache then holds
\* under the key of the page an entry equal to the response, to live 5
\* minutes; when the cache write fails the cache is left as it is.
MissReadsStoreAndFillsCache ==
  [][\A w \in Workers :
       LET c == call[w]
           u == c.user
           rows == transactions[u]
           n == Len(rows)
       IN /\ (pc[w] = "h_lookup" /\ pc'[w] # "h_lookup") =>
               IF wallets[u].exists
               THEN \/ pc'[w] = "h_list"
                    \/ last'.result = RepositoryError("failed to get wallet")
               ELSE /\ pc'[w] = "idle"
                    /\ last'.result \in {NotFoundError("wallet not found"),
                                         RepositoryError("failed to get wallet")}
                    /\ UNCHANGED <<store, cache>>
          /\ (pc[w] = "h_list" /\ pc'[w] = "h_count") =>
               LET txs == call'[w].txs IN
               /\ Len(txs) = IF n - c.offset > c.limit THEN c.limit
                             ELSE IF n - c.offset > 0 THEN n - c.offset ELSE 0
               /\ \A i \in 1 .. Len(txs) : txs[i] = rows[n - c.offset - i + 1]
          /\ (pc[w] = "h_count" /\ pc'[w] = "h_set") => call'[w].total = n
          /\ (pc[w] = "h_set" /\ pc'[w] # "h_set") =>
               /\ last'.worker = w
               /\ last'.result.err = "nil"
               /\ last'.result.txs = c.txs
               /\ last'.result.total = c.total
               /\ store' = store
               /\ LET ops == last'.call.ops IN
                  IF ops[Len(ops)] = "cache_set"
                  THEN /\ cache'[KeyOf(c)].present
                       /\ cache'[KeyOf(c)].ttl = 5
                       /\ CachedResponse(cache'[KeyOf(c)]) = last'.result
                       /\ \A k \in CacheKeys \ {KeyOf(c)} : cache'[k] = cache[k]
                  ELSE cache' = cache]_vars

\* C14 happens: a miss has returned a page with rows and the cache holds it
MissFilledCache ==
  /\ last.call.op = "history"
  /\ last.result.err = "nil"
  /\ last.call.ops = <<"cache_get", "get_wallet", "list", "count", "cache_set">>
  /\ Len(last.result.txs) >= 1
  /\ last.result.total = Len(transactions[last.call.user])
  /\ CachedResponse(cache[KeyOf(last.call)]) = last.result

\* the operations of a history call on the store
StoreReads == {"get_wallet", "list", "count"}

\* C15: a history call fails only in a read of the store.  A failed cache
\* read sends it on to the store as a miss does, and whether the cache read
\* or the cache write failed or not, the call that has read its page and its
\* total returns them in the response of a miss.
CacheFailuresNeverFail ==
  [][/\ (last'.call.op = "history" /\ Failed(last'.result)) =>
          last'.call.ops[Len(last'.call.ops)] \in StoreReads
     /\ \A w \in Workers :
          /\ (pc[w] = "idle" /\ pc'[w] = "h_lookup") =>
               call'[w].ops \in {<<"cache_get">>, <<"cache_get_failed">>}
          /\ (pc[w] = "h_count" /\ pc'[w] = "h_set") =>
               call'[w].total = Len(transactions[call[w].user])
          /\ (pc[w] = "h_set" /\ pc'[w] # "h_set") =>
               LET c == call[w] IN
               /\ last'.worker = w
               /\ last'.result.err = "nil"
               /\ last'.result.txs = c.txs
               /\ last'.result.total = c.total
               /\ last'.result.limit = c.limit
               /\ (last'.result.page - 1) * c.limit <= c.offset
               /\ c.offset < last'.result.page * c.limit
               /\ last'.result.totalPages * c.limit >= c.total
               /\ (last'.result.totalPages - 1) * c.limit < c.total]_vars

\* C15 happens: a call whose cache read and cache write both failed has
\* returned a page with rows
ServedWithoutCache ==
  /\ last.call.op = "history"
  /\ last.call.ops = <<"cache_get_failed", "get_wallet", "list", "count", "cache_set_failed">>
  /\ last.result.err = "nil"
  /\ Len(last.result.txs) >= 1
  /\ last.result.total = Len(transactions[last.call.user])

\* C16: once its unit has committed, a withdraw or deposit returns success with
\* the new balance and status completed whether the key scan and the delete
\* succeed or fail; the steps after the commit change neither wallets nor
\* rows, and the balance, the version and the row the call committed are in
\* the store when it returns.
InvalidationFailureSwallowed ==
  [][\A w \in Workers :
       pc[w] \in AfterCommit =>
         LET c == call[w]
             u == c.user
         IN /\ wallets[u].version >= c.newVersion
            /\ transactions[u][c.newVersion - 1] = c.txn
            /\ pc'[w] # pc[w] =>
                 /\ store' = store
                 /\ pc'[w] \in {"scanned", "idle"}
                 /\ pc'[w] = "idle" =>
                      /\ last'.worker = w
                      /\ last'.result.err = "nil"
                      /\ last'.result.newBalance = c.newBalance
                      /\ last'.result.status = TransactionStatusCompleted]_vars

\* C16 happens: a mutation whose delete of the cached pages failed has
\* returned success and its write is the state of the wallet
DeleteFailedAfterCommit ==
  /\ last.call.op \in MutationOps
  /\ Len(last.call.ops) >= 2
  /\ last.call.ops[Len(last.call.ops) - 1] = "del_failed"
  /\ last.result.err = "nil"
  /\ wallets[last.call.user].version = last.call.wallet.version + 1
  /\ Len(transactions[last.call.user]) = last.call.wallet.version
  /\ cache[<<last.call.user, 1, 2>>].present

\* C17: the locked read of a withdraw or deposit (whose amount is then
\* positive) for a user without a wallet ends the call in that step with the
\* not found error (a failed read: with its repository error); the call has
\* begun its unit, read, and rolled back, and nothing else: no wallet and no
\* row is created, no cached page is scanned or deleted, no lock is kept.
NoWalletNotFound ==
  [][\A w \in Workers :
       (pc[w] = "begun" /\ pc'[w] # "begun" /\ ~wallets[call[w].user].exists) =>
         /\ call[w].amount > 0
         /\ pc'[w] = "idle"
         /\ last'.worker = w
         /\ last'.result \in
              {[NoResult EXCEPT !.err = "NotFoundError", !.msg = "wallet not found"],
               [NoResult EXCEPT !.err = "RepositoryError",
                                !.msg = "failed to get wallet for update"]}
         /\ last'.call.ops = <<"begin", "for_update", "rollback">>
         /\ UNCHANGED <<store, cache>>
         /\ ~wallets'[call[w].user].exists
         /\ \A u \in Users : lock'[u] # w]_vars

\* C17 happens: a deposit for a user without a wallet was refused
DepositWithoutWallet ==
  /\ last.call.op = TransactionTypeDeposit
  /\ last.call.amount > 0
  /\ last.result.err = "NotFoundError"
  /\ last.result.msg = "wallet not found"
  /\ ~wallets[last.call.user].exists
  /\ transactions[last.call.user] = <<>>

\* an error result of kind err with message msg and no response
ErrorResult(err, msg) == [NoResult EXCEPT !.err = err, !.msg = msg]

\* C18 as stated: every failure of a withdraw or deposit that is neither a
\* refusal of the request (bad request) nor a missing wallet (not found) is
\* reported as a repository error.
StoreFailureIsRepositoryError ==
  (/\ last.call.op \in MutationOps
   /\ Failed(last.result)
   /\ last.result.err \notin {"BadRequestError", "NotFoundError"}) =>
    last.result.err = "RepositoryError"

\* C18: a failure to open the unit of work is reported as the general error
\* "failed to begin transaction", with no unit to roll back; a failure of the
\* locked read (other than not found), of the insert, of the balance update,
\* of the status update or of the commit is reported as the repository error
\* of that operation, the rollback is the last operation of the call and the
\* call keeps no lock; in every case wallets and rows are left as they are.
StoreFailureReported ==
  [][\A w \in Workers :
       /\ (/\ pc[w] = "idle" /\ pc'[w] = "idle"
           /\ last'.worker = w
           /\ last'.call.op \in MutationOps
           /\ last'.call.amount > 0) =>
            /\ last'.result = ErrorResult("GeneralError", "failed to begin transaction")
            /\ last'.call.ops = <<"begin">>
            /\ UNCHANGED <<store, lock>>
       /\ (pc[w] \in InUnit \cup {"begun"} /\ pc'[w] = "idle") =>
            /\ last'.worker = w
            /\ last'.result \in
                 CASE pc[w] = "begun" ->
                        {ErrorResult("RepositoryError", "failed to get wallet for update"),
                         ErrorResult("NotFoundError", "wallet not found"),
                         ErrorResult("BadRequestError", "insufficient balance")}
                   [] pc[w] = "locked" ->
                        {ErrorResult("RepositoryError", "failed to create transaction")}
                   [] pc[w] = "inserted" ->
                        {ErrorResult("RepositoryError", "failed to update wallet balance")}
                   [] pc[w] = "updated" ->
                        {ErrorResult("RepositoryError", "failed to update transaction status")}
                   [] pc[w] = "completed" ->
                        {ErrorResult("RepositoryError", "failed to commit transaction")}
            /\ last'.call.ops[Len(last'.call.ops)] = "rollback"
            /\ \A u \in Users : lock'[u] # w
            /\ store' = store]_vars

\* C18 happens: a deposit on an existing wallet could not open its unit
BeginFailed ==
  /\ last.call.op = TransactionTypeDeposit
  /\ last.result = ErrorResult("GeneralError", "failed to begin transaction")
  /\ last.call.ops = <<"begin">>
  /\ wallets[last.call.user].exists

\* C19: a createWallet that returns a response has created the wallet of its
\* user with balance 0 and version 1 and no rows; one that fails returns the
\* repository error "failed to create wallet" and no response, and has
\* created no wallet.  No other wallet and no row is touched either way.
CreateWalletCreates ==
  [][last'.call.op = "create" =>
       LET u == last'.call.user IN
       /\ last'.call.ops = <<"create">>
       /\ transactions' = transactions
       /\ \A v \in Users \ {u} : wallets'[v] = wallets[v]
       /\ IF last'.result.err = "nil"
          THEN /\ wallets'[u] = [exists |-> TRUE, balance |-> 0, version |-> 1]
               /\ transactions'[u] = <<>>
          ELSE /\ last'.result = ErrorResult("RepositoryError", "failed to create wallet")
               /\ wallets'[u] = wallets[u]]_vars

\* C19 happens: a wallet has just been created
WalletCreated ==
  /\ last.call.op = "create"
  /\ last.result.err = "nil"
  /\ wallets[last.call.user] = [exists |-> TRUE, balance |-> 0, version |-> 1]

\* C20 as stated: a createWallet for a user who owns a wallet fails with a
\* conflict error.
CreateConflictIsConflictError ==
  (/\ last.call.op = "create"
   /\ Failed(last.result)
   /\ wallets[last.call.user].exists) =>
    last.result.err = "ConflictError"

\* C20: a createWallet succeeds only for a user who owns no wallet, so that
\* of any number of calls for one user at most one succeeds; for a user who
\* owns one it fails with the repository error "failed to create wallet", the
\* error of every failed insert, and leaves the wallet and its rows as they
\* are.
OneWalletPerUser ==
  [][last'.call.op = "create" =>
       LET u == last'.call.user IN
       /\ last'.result.err = "nil" => ~wallets[u].exists
       /\ wallets[u].exists =>
            /\ last'.result = ErrorResult("RepositoryError", "failed to create wallet")
            /\ wallets' = wallets
            /\ transactions' = transactions]_vars

\* C20 happens: a createWallet was refused for a user whose wallet has
\* committed mutations, and the wallet is as it was
SecondCreateRefused ==
  /\ last.call.op = "create"
  /\ Failed(last.result)
  /\ wallets[last.call.user].exists
  /\ wallets[last.call.user].version = 3
  /\ Len(transactions[last.call.user]) = 2

\* C21: a getBalance performs one read of the wallet and returns in that step.
\* It fails with the not found error exactly when the user has no wallet
\* (a failed read: with the repository error), and otherwise returns the
\* balance of the wallet as committed at that moment: never the balance an
\* open unit has staged, and with every mutation committed before it.
GetBalanceReadsCommitted ==
  last.call.op = "balance" =>
    LET u == last.call.user IN
    /\ last.call.ops = <<"get_wallet">>
    /\ last.result.err \in {"nil", "NotFoundError", "RepositoryError"}
    /\ last.result.err = "NotFoundError" <=>
         (~wallets[u].exists /\ last.result.msg = "wallet not found")
    /\ last.result.err = "RepositoryError" => last.result.msg = "failed to get wallet"
    /\ last.result.err = "nil" =>
         /\ wallets[u].exists
         /\ last.result.balance = wallets[u].balance

\* C21 happens: a balance was read while a unit that has staged another
\* balance for the wallet, on top of a committed mutation, is open
BalanceReadBesideOpenUnit ==
  /\ last.call.op = "balance"
  /\ last.result.err = "nil"
  /\ committed[last.call.user] = 1
  /\ last.result.balance = wallets[last.call.user].balance
  /\ \E x \in Workers :
       /\ pc[x] \in {"updated", "completed"}
       /\ call[x].user = last.call.user
       /\ call[x].upd.balance # last.result.balance

\* the operations of a unit of work up to its commit, in the order of the code
UnitOps == <<"begin", "for_update", "insert", "update", "status", "commit">>

\* C22: a row lock is held only by a call that is between its locked read and
\* its commit, on the wallet of that call; so a call past its commit and a
\* call that has returned hold none.  A withdraw or deposit that opened a unit
\* and returned has run the rollback as its last operation; it returns a
\* response exactly when the commit succeeded, and an error straight after
\* the operation that failed.
UnitEndsBeforeReturn ==
  /\ \A u \in Users :
       lock[u] # NoWorker => (pc[lock[u]] \in InUnit /\ call[lock[u]].user = u)
  /\ (last.call.op \in MutationOps /\ Len(last.call.ops) > 1) =>
       LET ops == last.call.ops
           n == Len(ops)
       IN /\ ops[1] = "begin"
          /\ ops[n] = "rollback"
          /\ pc[last.worker] = "idle"
          /\ \A u \in Users : lock[u] # last.worker
          /\ IF last.result.err = "nil"
             THEN n \in {8, 9} /\ SubSeq(ops, 1, 6) = UnitOps
             ELSE n <= 7 /\ SubSeq(ops, 1, n - 1) = SubSeq(UnitOps, 1, n - 1)

\* C22 happens: a mutation has returned its response while the next unit on
\* the same wallet already holds the row lock the first has released
ReturnedWhileNextHoldsLock ==
  /\ last.call.op \in MutationOps
  /\ last.result.err = "nil"
  /\ lock[last.call.user] \notin {NoWorker, last.worker}
  /\ call[lock[last.call.user]].wallet.version = last.call.wallet.version + 1

\* C23: a unit of work waits for no row but its own.  Whatever rows other
\* units hold, a withdraw or deposit whose wallet's row is free can take its
\* locked read and the lock, and one that holds its row can insert its
\* transaction, update the balance, set the status and commit.
OtherWalletsDoNotBlock ==
  \A w \in Workers :
    LET c == call[w]
        u == c.user
    IN /\ (/\ pc[w] = "begun"
           /\ wallets[u].exists
           /\ lock[u] = NoWorker
           /\ ~(c.op = TransactionTypeWithdraw /\ wallets[u].balance < c.amount)
           /\ Len(transactions[u]) < MaxRows) =>
            ENABLED (GetByUserIDForUpdate(w) /\ pc'[w] = "locked" /\ lock'[u] = w)
       /\ (pc[w] = "locked" /\ RoundCents(c.amount) > 0) =>
            ENABLED (CreateTransaction(w) /\ pc'[w] = "inserted")
       /\ pc[w] = "inserted" =>
            ENABLED (UpdateBalance(w) /\ pc'[w] = "updated")
       /\ pc[w] = "updated" =>
            ENABLED (UpdateTransactionStatus(w) /\ pc'[w] = "completed")
       /\ pc[w] = "completed" =>
            ENABLED (Commit(w) /\ pc'[w] = "committed" /\ lock'[u] = NoWorker)

\* C23 happens: a unit on one wallet has taken its lock and staged its change,
\* ready to commit, while a unit on another wallet holds that wallet's lock
TwoWalletsInParallel ==
  \E w, x \in Workers :
    /\ call[w].user # call[x].user
    /\ pc[w] = "completed"
    /\ pc[x] \in InUnit
    /\ lock[call[w].user] = w
    /\ lock[call[x].user] = x

\* the operations of the cache invalidation
InvalidationOps == {"keys", "keys_failed", "del", "del_failed"}

\* C24: the key scan is taken only by a call whose unit has just committed,
\* and the delete only after the scan; a withdraw or deposit that returns an
\* error has performed neither.  The scan finds every page of the user the
\* cache holds at that moment, and a delete that succeeds leaves none of the
\* pages the scan found in the cache and touches no page of another user.
InvalidationAfterCommitOnly ==
  [][\A w \in Workers :
       LET c == call[w]
           mine == {k \in CacheKeys : k[1] = c.user /\ cache[k].present}
       IN /\ (pc[w] # "scanned" /\ pc'[w] = "scanned") =>
               /\ pc[w] = "committed"
               /\ SubSeq(c.ops, 1, 6) = UnitOps
               /\ transactions[c.user][c.newVersion - 1] = c.txn
               /\ call'[w].keys = mine
               /\ cache' = cache
          /\ (last'.worker = w /\ last'.call.op \in MutationOps) =>
               LET ops == last'.call.ops IN
               /\ (\E i \in 1 .. Len(ops) : ops[i] \in InvalidationOps) =>
                    /\ pc[w] \in AfterCommit
                    /\ last'.result.err = "nil"
                    /\ SubSeq(ops, 1, 6) = UnitOps
                    /\ ops[7] \in {"keys", "keys_failed"}
                    /\ Len(ops) = 9 => (ops[7] = "keys" /\ ops[8] \in {"del", "del_failed"})
               /\ Failed(last'.result) => pc[w] \notin AfterCommit
               /\ cache' # cache => (pc[w] = "scanned" /\ ops[Len(ops) - 1] = "del")
               /\ (pc[w] = "scanned" /\ ops[Len(ops) - 1] = "del") =>
                    /\ c.keys # {}
                    /\ \A k \in c.keys : ~cache'[k].present
                    /\ \A k \in CacheKeys \ c.keys : cache'[k] = cache[k]
               /\ (pc[w] = "committed" /\ ops[Len(ops) - 1] = "keys") =>
                    (mine = {} /\ cache' = cache)]_vars

\* C24 happens: the second mutation of a wallet has returned after deleting
\* the cached pages its scan had found, and the cache holds no page
PagesInvalidated ==
  /\ last.call.op \in MutationOps
  /\ last.result.err = "nil"
  /\ Len(last.call.ops) = 9
  /\ last.call.ops[8] = "del"
  /\ \A k \in CacheKeys : ~cache[k].present
  /\ invalidated[last.call.user] = 2

\* C25: the rows of a wallet only grow, by one row at a time and only in the
\* step that commits a withdraw or deposit: every row a wallet has stays where
\* it is with its kind, its amount and its status, and the row a commit adds
\* is a completed row of the kind of the call.
HistoryAppendOnly ==
  [][\A u \in Users :
       LET old == transactions[u]
           new == transactions'[u]
       IN /\ Len(new) \in {Len(old), Len(old) + 1}
          /\ \A i \in 1 .. Len(old) : new[i] = old[i]
          /\ Len(new) = Len(old) + 1 =>
               \E w \in Workers :
                 /\ pc[w] = "completed" /\ pc'[w] = "committed"
                 /\ call[w].user = u
                 /\ new[Len(new)].type = call[w].op
                 /\ new[Len(new)].status = TransactionStatusCompleted
                 /\ new[Len(new)].amount > 0]_vars

\* C25 happens: a withdraw has committed the second row of a wallet and the
\* first row, a deposit of one cent, is as it was
SecondRowAppended ==
  /\ pc["w2"] = "committed"
  /\ call["w2"].op = TransactionTypeWithdraw
  /\ Len(transactions[call["w2"].user]) = 2
  /\ transactions[call["w2"].user][1] =
       [type |-> TransactionTypeDeposit, amount |-> CentTicks,
        status |-> TransactionStatusCompleted]
  /\ transactions[call["w2"].user][2].type = TransactionTypeWithdraw

\* C26: a withdraw or deposit performs its operations in the order begin,
\* locked read, insert, balance update, status update, commit.  The row is
\* pending from its insert until the status update, which follows the
\* balance update of the same unit (the new balance and version are staged
\* by then), and the unit commits only with the row completed.
StepsInOrder ==
  \A w \in Workers :
    call[w].op \in MutationOps =>
      LET c == call[w]
          staged == c.upd.exists /\ c.upd.version = c.wallet.version + 1
      IN CASE pc[w] = "begun" ->
                c.ops = SubSeq(UnitOps, 1, 1) /\ ~c.wallet.exists
           [] pc[w] = "locked" ->
                c.ops = SubSeq(UnitOps, 1, 2) /\ c.wallet.exists /\ c.txn = NoRow
           [] pc[w] = "inserted" ->
                /\ c.ops = SubSeq(UnitOps, 1, 3)
                /\ c.txn.status = TransactionStatusPending
                /\ ~c.upd.exists
           [] pc[w] = "updated" ->
                /\ c.ops = SubSeq(UnitOps, 1, 4)
                /\ c.txn.status = TransactionStatusPending
                /\ staged
           [] pc[w] = "completed" ->
                /\ c.ops = SubSeq(UnitOps, 1, 5)
                /\ c.txn.status = TransactionStatusCompleted
                /\ staged
                /\ wallets[c.user] = c.wallet
           [] pc[w] \in AfterCommit ->
                /\ SubSeq(c.ops, 1, 6) = UnitOps
                /\ c.txn.status = TransactionStatusCompleted
                /\ staged
                /\ transactions[c.user][c.wallet.version] = c.txn
           [] OTHER -> FALSE

\* C26 happens: the second unit of a wallet is about to commit, its row
\* completed and its balance staged
ReadyToCommit ==
  \E w \in Workers :
    /\ pc[w] = "completed"
    /\ call[w].ops = <<"begin", "for_update", "insert", "update", "status">>
    /\ call[w].txn.status = TransactionStatusCompleted
    /\ call[w].upd.version = 3
    /\ wallets[call[w].user].version = 2

\* C27: at most one open unit of work is past its locked read of a given
\* wallet, and it is the holder of the row's lock.  While the row is held, the
\* locked read of another worker on that wallet can only fail: it cannot
\* return the row, so that worker takes no further step of its unit until
\* the holder has committed or rolled back.
RowLockMutualExclusion ==
  /\ \A w, x \in Workers :
       (pc[w] \in InUnit /\ pc[x] \in InUnit /\ call[w].user = call[x].user) => w = x
  /\ \A w \in Workers :
       pc[w] \in InUnit => lock[call[w].user] = w
  /\ \A w \in Workers :
       (pc[w] = "begun" /\ lock[call[w].user] # NoWorker) =>
         /\ lock[call[w].user] # w
         /\ pc[lock[call[w].user]] \in InUnit
         /\ ~ENABLED (/\ GetByUserIDForUpdate(w)
                      /\ \/ pc'[w] # "idle"
                         \/ last'.result.msg # "failed to get wallet for update")

\* C27 happens: a worker is at its locked read of a wallet whose row another
\* unit, which has staged its balance, holds
WaitingForRow ==
  \E w, x \in Workers :
    /\ w # x
    /\ pc[w] = "begun"
    /\ call[w].user = call[x].user
    /\ pc[x] = "updated"
    /\ lock[call[w].user] = x

\* C28: the balance update of a unit stages the new balance (as the column
\* holds it, to the cent) and the new version exactly when the stored version
\* is the new version minus 1 and the statement does not fail, and the commit
\* then makes them the stored row.  When the stored version is another, the
\* update matches no row: the call returns the repository error "failed to
\* update wallet balance", rolls back and keeps no lock, and the stored
\* balance, version and rows are as they were.
ConditionalUpdate ==
  [][\A w \in Workers :
       LET c == call[w]
           u == c.user
           row == wallets[u]
       IN /\ (pc[w] = "inserted" /\ pc'[w] # "inserted") =>
               LET ops == last'.call.ops
                   n == Len(ops)
                   failure ==
                     /\ pc'[w] = "idle"
                     /\ last'.worker = w
                     /\ last'.result = ErrorResult("RepositoryError",
                                                   "failed to update wallet balance")
                     /\ ops[n] = "rollback"
                     /\ \A v \in Users : lock'[v] # w
                     /\ store' = store
               IN IF row.version = c.newVersion - 1
                  THEN \/ /\ pc'[w] = "updated"
                          /\ call'[w].upd.exists
                          /\ call'[w].upd.version = c.newVersion
                          /\ 2 * (call'[w].upd.balance - c.newBalance) <= CentTicks
                          /\ 2 * (c.newBalance - call'[w].upd.balance) <= CentTicks
                          /\ store' = store
                       \/ failure /\ ops[n - 1] = "update"
                  ELSE failure /\ ops[n - 1] \in {"update_no_rows", "update"}
          /\ (pc[w] = "completed" /\ pc'[w] = "committed") =>
               /\ row.version = c.newVersion - 1
               /\ wallets'[u] = c.upd
               /\ wallets'[u].version = c.newVersion]_vars

\* C28 happens: the update of a unit that had read version 1 has matched no
\* row of a wallet other writers have taken to version 3, which is as it was
VersionCheckFailed ==
  /\ last.call.op \in MutationOps
  /\ last.call.wallet.version = 1
  /\ wallets[last.call.user].version = 3
  /\ Len(last.call.ops) = 5
  /\ last.call.ops[4] = "update_no_rows"
  /\ last.result.err = "RepositoryError"
  /\ Len(transactions[last.call.user]) = 2

\* C29: the version check of the balance update never fails.  From its
\* locked read to its commit a unit finds the stored version of its wallet
\* to be the one it has read, its new version minus 1, so that its update
\* matches the row; and no withdraw or deposit has returned from an update
\* that matched no row.
VersionCheckNeverFails ==
  /\ \A w \in Workers :
       pc[w] \in InUnit =>
         /\ wallets[call[w].user].exists
         /\ wallets[call[w].user].version = call[w].newVersion - 1
  /\ \A i \in 1 .. Len(last.call.ops) : last.call.ops[i] # "update_no_rows"

\* C29 happens: of two concurrent mutations of a wallet at version 2, one is
\* at its balance update and the other waits at its locked read
UpdateWhileOtherWaits ==
  \E w, x \in Workers :
    /\ w # x
    /\ pc[w] = "inserted"
    /\ pc[x] = "begun"
    /\ call[w].user = call[x].user
    /\ wallets[call[w].user].version = 2
    /\ call[w].newVersion = 3

\* C30: the deferred rollback of a withdraw or deposit whose unit has
\* committed changes nothing.  In the step in which such a call returns, the
\* rollback is its last operation, wallets, rows and row locks are after the
\* step as before it, the row the unit committed is in its place, and the
\* wallet, unless a later unit has advanced it, has the balance and version
\* the unit committed.
RollbackAfterCommitNoOp ==
  [][\A w \in Workers :
       (pc[w] \in AfterCommit /\ pc'[w] = "idle") =>
         LET c == call[w]
             u == c.user
             ops == last'.call.ops
         IN /\ last'.worker = w
            /\ ops[Len(ops)] = "rollback"
            /\ SubSeq(ops, 1, 6) = UnitOps
            /\ store' = store
            /\ lock' = lock
            /\ transactions'[u][c.newVersion - 1] = c.txn
            /\ wallets'[u].version >= c.newVersion
            /\ wallets'[u].version = c.newVersion => wallets'[u] = c.upd]_vars

\* C30 happens: a deposit has returned with its commit in the store while a
\* unit on the wallet of another user is open and holds its row
ReturnedBesideOpenUnit ==
  /\ last.call.op = TransactionTypeDeposit
  /\ last.result.err = "nil"
  /\ last.call.ops[Len(last.call.ops)] = "rollback"
  /\ wallets[last.call.user].version = last.call.wallet.version + 1
  /\ Len(transactions[last.call.user]) = last.call.wallet.version
  /\ \E x \in Workers :
       /\ pc[x] \in InUnit
       /\ call[x].user # last.call.user
       /\ lock[call[x].user] = x

\* C31: the page read of a history call holds rows of the wallet of the call
\* only, at most limit of them: the rows that follow the offset newest rows,
\* newest first (row i of the page is the offset + i th newest row of the
\* wallet).  The count read is the number of rows of the wallet, whatever
\* limit and offset are.
ListNewestFirstCountAll ==
  \A w \in Workers :
    LET c == call[w]
        rows == transactions[c.user]
        n == Len(rows)
    IN /\ pc[w] \in {"h_count", "h_set"} =>
            /\ Len(c.txs) <= c.limit
            /\ Len(c.txs) = IF n - c.offset >= c.limit THEN c.limit
                            ELSE IF n - c.offset > 0 THEN n - c.offset ELSE 0
            /\ \A i \in 1 .. Len(c.txs) : c.txs[i] = rows[n - c.offset - i + 1]
       /\ pc[w] = "h_set" => c.total = n

\* C31 happens: of three rows, the page of limit 2 after offset 1 holds the
\* second and the third newest, and the count is 3
PageAfterOffset ==
  \E w \in Workers :
    /\ pc[w] = "h_set"
    /\ call[w].limit = 2
    /\ call[w].offset = 1
    /\ call[w].total = 3
    /\ Len(call[w].txs) = 2
    /\ call[w].txs[1].amount = 2 * CentTicks
    /\ call[w].txs[2].amount = CentTicks

\* C32: with every goroutine scheduled and the store answering every
\* operation, every withdraw or deposit that has begun returns; a worker
\* whose locked read finds the row held gets the row (its call goes on past
\* the read, or is refused for its balance, which the read has returned);
\* and every row lock that is held is released.
MutationsTerminate ==
  /\ \A w \in Workers :
       /\ (pc[w] # "idle") ~> (pc[w] = "idle")
       /\ (pc[w] = "begun" /\ lock[call[w].user] # NoWorker)
            ~> \/ pc[w] = "locked" /\ lock[call[w].user] = w
               \/ last.worker = w /\ last.result.msg = "insufficient balance"
  /\ \A u \in Users : (lock[u] # NoWorker) ~> (lock[u] = NoWorker)

\* C32 happens: a worker is at its locked read while the other holds the row
BlockedOnRow ==
  \E w, x \in Workers :
    /\ w # x
    /\ pc[w] = "begun"
    /\ pc[x] \in InUnit
    /\ call[x].user = call[w].user
    /\ lock[call[w].user] = x
    /\ call[w].amount > 0

\* the sum of the amounts of the rows of kind type among rows
RECURSIVE SumOfType(_, _)
SumOfType(rows, type) ==
  IF rows = <<>> THEN 0
  ELSE (IF rows[Len(rows)].type = type THEN rows[Len(rows)].amount ELSE 0)
       + SumOfType(SubSeq(rows, 1, Len(rows) - 1), type)

\* C33: ledger reconstruction.  The balance of every wallet is the sum of the
\* amounts of its deposit rows minus the sum of the amounts of its withdraw
\* rows, and the amount of every row is strictly positive.
LedgerReconstructs ==
  \A u \in Users :
    /\ wallets[u].balance = SumOfType(transactions[u], TransactionTypeDeposit)
                            - SumOfType(transactions[u], TransactionTypeWithdraw)
    /\ \A i \in 1 .. Len(transactions[u]) : transactions[u][i].amount > 0

\* C34: with the store unchanged, a history call answered from the cache
\* returns the list of transactions the store holds for its limit and offset:
\* the rows that follow the offset newest rows of the wallet, newest first.
CacheServesAsStore ==
  (/\ last.call.op = "history"
   /\ last.result.err = "nil"
   /\ last.call.ops = <<"cache_get">>) =>
    last.result.txs = GetTransactionsByWalletID(transactions[last.call.user],
                                                last.call.limit, last.call.offset)

\* C35: the page and the total of a history call that went to the store come
\* from one state of the store: the page is the page, for the limit and
\* offset of the call, of the wallet as it was with total rows (rows are only
\* appended, so that state held the first total rows of the wallet).
HistorySnapshotConsistent ==
  \A w \in Workers :
    pc[w] = "h_set" =>
      LET c == call[w]
          rows == transactions[c.user]
      IN /\ c.total <= Len(rows)
         /\ c.txs = GetTransactionsByWalletID(SubSeq(rows, 1, c.total), c.limit, c.offset)

\* C36: the invalidation of a mutation of user U touches the pages of U only.
\* Its key scan changes nothing, its delete leaves every cached page of every
\* other user present and unchanged, and neither step changes a wallet or a
\* row.
InvalidationSparesOtherUsers ==
  [][\A w \in Workers :
       pc[w] \in AfterCommit /\ pc'[w] # pc[w] =>
         /\ store' = store
         /\ pc[w] = "committed" => cache' = cache
         /\ \A k \in CacheKeys : k[1] # call[w].user => cache'[k] = cache[k]]_vars

\* C36 happens: a mutation of one user has deleted the cached page of that
\* user, and the cached page of the other user is in the cache
OtherUsersPageKept ==
  /\ last.call.op \in MutationOps
  /\ Len(last.call.ops) = 9
  /\ last.call.ops[8] = "del"
  /\ \A k \in CacheKeys : k[1] = last.call.user => ~cache[k].present
  /\ \E k \in CacheKeys : k[1] # last.call.user /\ cache[k].present

\* C37: the balance test refuses only an amount greater than the balance.
\* The locked read of a withdraw of exactly the balance of the wallet lets
\* the call go on with new balance 0 (or fails as a read), and its commit
\* leaves the wallet with balance exactly 0 and its version increased by 1;
\* a withdraw is refused for its balance only when its amount is greater.
WithdrawOfWholeBalance ==
  [][\A w \in Workers :
       LET c == call[w]
           u == c.user
       IN /\ (/\ pc[w] = "begun" /\ pc'[w] # "begun"
              /\ c.op = TransactionTypeWithdraw
              /\ wallets[u].exists
              /\ c.amount = wallets[u].balance) =>
               \/ /\ pc'[w] = "locked"
                  /\ call'[w].newBalance = 0
                  /\ call'[w].newVersion = wallets[u].version + 1
               \/ last'.result.msg = "failed to get wallet for update"
          /\ (/\ pc[w] = "completed" /\ pc'[w] = "committed"
              /\ c.op = TransactionTypeWithdraw
              /\ c.amount = c.wallet.balance) =>
               /\ wallets'[u].balance = 0
               /\ wallets'[u].version = wallets[u].version + 1
          /\ (last'.worker = w /\ last'.result.msg = "insufficient balance") =>
               /\ c.op = TransactionTypeWithdraw
               /\ c.amount > wallets[u].balance
               /\ store' = store]_vars

\* C37 happens: a withdraw of the whole balance of one cent has committed
WholeBalanceWithdrawn ==
  \E w \in Workers :
    /\ pc[w] = "committed"
    /\ call[w].op = TransactionTypeWithdraw
    /\ call[w].amount = CentTicks
    /\ call[w].wallet.balance = CentTicks
    /\ wallets[call[w].user].balance = 0
    /\ wallets[call[w].user].version = call[w].wallet.version + 1

\* C38: every transaction of a history response, and of a cached page, is a
\* committed row of the wallet with status completed: no response shows a
\* pending row or a row of a unit that has not committed.
HistoryShowsCommittedOnly ==
  /\ (last.call.op = "history" /\ last.result.err = "nil") =>
       \A i \in 1 .. Len(last.result.txs) :
         /\ last.result.txs[i].status = TransactionStatusCompleted
         /\ \E j \in 1 .. Len(transactions[last.call.user]) :
              transactions[last.call.user][j] = last.result.txs[i]
  /\ \A k \in CacheKeys :
       \A i \in 1 .. Len(cache[k].txs) :
         /\ cache[k].txs[i].status = TransactionStatusCompleted
         /\ \E j \in 1 .. Len(transactions[k[1]]) : transactions[k[1]][j] = cache[k].txs[i]
  /\ \A w \in Workers :
       \A i \in 1 .. Len(call[w].txs) :
         call[w].txs[i].status = TransactionStatusCompleted

\* C38 happens: a history response with a row was built from the store while
\* a unit that has inserted its pending row is open
HistoryBesidePendingRow ==
  /\ last.call.op = "history"
  /\ last.result.err = "nil"
  /\ Len(last.call.ops) > 1
  /\ Len(last.result.txs) = 1
  /\ \E x \in Workers :
       /\ pc[x] \in {"inserted", "updated"}
       /\ call[x].user = last.call.user
       /\ call[x].txn.status = TransactionStatusPending

\* C39: a history call that fails in its wallet lookup, its page read or its
\* count read returns the error of that read and no response, and no step of
\* the call up to then, the failing one included, has written to the cache
\* or to the store.
FailedHistoryWritesNothing ==
  [][\A w \in Workers :
       /\ (pc[w] \in {"h_lookup", "h_list", "h_count"} /\ pc'[w] # pc[w]) =>
            /\ cache' = cache
            /\ store' = store
       /\ (pc[w] = "idle" /\ pc'[w] = "h_lookup") => cache' = cache
       /\ (pc[w] \in {"h_lookup", "h_list", "h_count"} /\ pc'[w] = "idle") =>
            /\ last'.worker = w
            /\ last'.result.err \in {"NotFoundError", "RepositoryError"}
            /\ last'.result = ErrorResult(last'.result.err, last'.result.msg)
            /\ last'.result.msg =
                 CASE pc[w] = "h_lookup" ->
                        IF last'.result.err = "NotFoundError" THEN "wallet not found"
                        ELSE "failed to get wallet"
                   [] pc[w] = "h_list" -> "failed to get transaction history"
                   [] pc[w] = "h_count" -> "failed to get total transactions"
            /\ \A i \in 1 .. Len(last'.call.ops) :
                 last'.call.ops[i] \notin {"cache_set", "cache_set_failed"}]_vars

\* C39 happens: the count read of a history call on a wallet with a row has
\* failed, and the cache holds no page under the key of the call
CountFailedNothingCached ==
  /\ last.call.op = "history"
  /\ last.result.msg = "failed to get total transactions"
  /\ last.call.ops = <<"cache_get", "get_wallet", "list", "count">>
  /\ Len(transactions[last.call.user]) >= 1
  /\ ~cache[KeyOf(last.call)].present

=============================================================================
